---- MODULE Spec2Model ----
(***************************************************************************)
(* Model of New_app.py, the two-image surface-hygiene Streamlit page.      *)
(*                                                                         *)
(* The page is a script that Streamlit executes from top to bottom each    *)
(* time the file-uploader widget changes or the user asks for a rerun.     *)
(* One script run: load_yolo_model() (memoised by st.cache_resource),      *)
(* then the RUN DETECTION block: with exactly two files, open both         *)
(* images, run_yolo_and_get_counts on each, merge the two count maps,      *)
(* classify, and render one result card; otherwise a warning or a prompt.  *)
(*                                                                         *)
(* Text is a sequence of one-character strings so that .lower().strip()    *)
(* is computed.  A dict is a function whose domain is its key set.  The    *)
(* float product bacteria_ml * 0.09 and the "{cfu:.2f}" rendering are      *)
(* computed on IEEE-754 doubles held as little-endian bit sequences.       *)
(***************************************************************************)
EXTENDS Integers, Sequences, FiniteSets, TLC

VARIABLES
  uploaded_files,  \* the file uploader's value: the images it holds, in order
  modelFile,       \* models/Yolov11_BacteriaDetection.pt: absent, valid, corrupt
  remote,          \* the class names of the artifact in the Drive folder
  cache,           \* st.cache_resource's entry for load_yolo_model()
  yolo_model,      \* the latest run's yolo_model (NoModel: the load raised)
  counts1,         \* the latest run's counts1
  counts2,         \* the latest run's counts2
  total_counts,    \* the latest run's total_counts
  card_html,       \* the latest run's card_html (NoCard: none was built)
  shown,           \* what the latest run left on the page
  inferences,      \* calls of run_yolo_and_get_counts in the latest run
  fetches,         \* downloads that wrote the model file, so far
  loads,           \* YOLO(MODEL_PATH) constructions that returned, so far
  redundant,       \* a download was started while the model file existed
  analysed         \* a run before the latest one showed a result card

vars ==
  << uploaded_files, modelFile, remote, cache, yolo_model, counts1, counts2,
     total_counts, card_html, shown, inferences, fetches, loads, redundant,
     analysed >>

\* ------------------------------------------------------------------ bounds

\* Most detections the model returns for one image in a user session.
MaxDet == 1

\* Most detections per image when a pair of images is analysed on its own.
MaxBatchDet == 2

\* Most files the uploader holds.
MaxFiles == 3

\* -------------------------------------------------------------------- text

UpperAlphabet ==
  << "A", "B", "C", "D", "E", "F", "G", "H", "I", "J", "K", "L", "M",
     "N", "O", "P", "Q", "R", "S", "T", "U", "V", "W", "X", "Y", "Z" >>

LowerAlphabet ==
  << "a", "b", "c", "d", "e", "f", "g", "h", "i", "j", "k", "l", "m",
     "n", "o", "p", "q", "r", "s", "t", "u", "v", "w", "x", "y", "z" >>

Whitespace == { " ", "\t", "\n", "\r" }

\* Each upper-case letter's lower-case letter.
LowerOf ==
  [c \in { UpperAlphabet[i] : i \in DOMAIN UpperAlphabet } |->
     LowerAlphabet[CHOOSE i \in DOMAIN UpperAlphabet : UpperAlphabet[i] = c]]

\* str.lower() on one character.
LowerChar(c) == IF c \in DOMAIN LowerOf THEN LowerOf[c] ELSE c

\* str.lower()
Lower(s) == [i \in DOMAIN s |-> LowerChar(s[i])]

RECURSIVE LStrip(_)
LStrip(s) ==
  IF s # << >> /\ Head(s) \in Whitespace THEN LStrip(Tail(s)) ELSE s

RECURSIVE RStrip(_)
RStrip(s) ==
  IF s # << >> /\ s[Len(s)] \in Whitespace
  THEN RStrip(SubSeq(s, 1, Len(s) - 1))
  ELSE s

\* str.strip()
Strip(s) == RStrip(LStrip(s))

\* results[0].names[int(cls_id)].lower().strip()
NormalizeLabel(name) == Strip(Lower(name))

\* The three keys the page reads from total_counts.
KeyBacteria == << "b", "a", "c", "t", "e", "r", "i", "a" >>

KeyDebries == << "d", "e", "b", "r", "i", "e", "s" >>

KeyMilk ==
  << "m", "i", "l", "k", "_", "r", "e", "s", "i", "d", "u", "e", "s" >>

\* -------------------------------------------------------------------- dict

None == "None"

\* {}
EmptyDict == [k \in {} |-> 0]

\* d.get(k, default)
Get(d, k, default) == IF k \in DOMAIN d THEN d[k] ELSE default

\* d[k] = v
Put(d, k, v) == [x \in DOMAIN d \cup {k} |-> IF x = k THEN v ELSE d[x]]

RECURSIVE SumOver(_, _)
SumOver(d, keys) ==
  IF keys = {} THEN 0
  ELSE LET k == CHOOSE x \in keys : TRUE
       IN  d[k] + SumOver(d, keys \ {k})

\* sum(d.values())
SumValues(d) == SumOver(d, DOMAIN d)

\* ------------------------------------------------------------------ float

\* Significand width of a Python float (IEEE-754 binary64).
DoublePrecision == 53

\* float.hex(0.09) = 0x1.70a3d70a3d70ap-4: the significand 0x170a3d70a3d70a
\* (most significant hex digit first) scaled by 2^-56.
Hex009 == << 1, 7, 0, 10, 3, 13, 7, 0, 10, 3, 13, 7, 0, 10 >>

Exp009 == -56

\* A natural number as its bits, least significant first, no leading zero.
RECURSIVE Trim(_)
Trim(bits) ==
  IF bits # << >> /\ bits[Len(bits)] = 0
  THEN Trim(SubSeq(bits, 1, Len(bits) - 1))
  ELSE bits

RECURSIVE BitsOfInt(_)
BitsOfInt(n) == IF n = 0 THEN << >> ELSE << n % 2 >> \o BitsOfInt(n \div 2)

RECURSIVE IntOfBits(_)
IntOfBits(bits) ==
  IF bits = << >> THEN 0 ELSE Head(bits) + 2 * IntOfBits(Tail(bits))

RECURSIVE BitsOfHex(_)
BitsOfHex(hex) ==
  IF hex = << >> THEN << >>
  ELSE LET h == hex[Len(hex)]
       IN  << h % 2, (h \div 2) % 2, (h \div 4) % 2, (h \div 8) % 2 >>
             \o BitsOfHex(SubSeq(hex, 1, Len(hex) - 1))

\* The significand of 0.09.
Mant009 == Trim(BitsOfHex(Hex009))

RECURSIVE MulCarry(_, _, _)
MulCarry(bits, n, carry) ==
  IF bits = << >> THEN BitsOfInt(carry)
  ELSE LET v == Head(bits) * n + carry
       IN  << v % 2 >> \o MulCarry(Tail(bits), n, v \div 2)

\* bits * n, exact.
MulSmall(bits, n) == Trim(MulCarry(bits, n, 0))

RECURSIVE Increment(_)
Increment(bits) ==
  IF bits = << >> THEN << 1 >>
  ELSE IF Head(bits) = 0 THEN << 1 >> \o Tail(bits)
  ELSE << 0 >> \o Increment(Tail(bits))

\* bits / 2^k rounded to the nearest integer, ties to even.
RoundShift(bits, k) ==
  IF k <= 0 THEN bits
  ELSE LET q      == SubSeq(bits, k + 1, Len(bits))
           half   == k <= Len(bits) /\ bits[k] = 1
           sticky == \E i \in 1..(k - 1) : i <= Len(bits) /\ bits[i] = 1
           odd    == q # << >> /\ q[1] = 1
       IN  IF half /\ (sticky \/ odd) THEN Increment(q) ELSE q

\* float(n) * 0.09: the exact product rounded to 53 significant bits; the
\* value is mant * 2^exp.
MulBy009(n) ==
  LET p     == MulSmall(Mant009, n)
      shift == IF Len(p) > DoublePrecision THEN Len(p) - DoublePrecision ELSE 0
  IN  [mant |-> RoundShift(p, shift), exp |-> Exp009 + shift]

\* A rendered number: its integer part and its decimal digits.
Rendered(whole, decimals) == [whole |-> whole, decimals |-> decimals]

\* f"{n}" of an int.
FormatInt(n) == Rendered(n, << >>)

\* f"{x:.2f}": the double's exact value rounded to hundredths, ties to even.
Format2f(x) ==
  LET h == IntOfBits(RoundShift(MulSmall(x.mant, 100), 0 - x.exp))
  IN  Rendered(h \div 100, << (h % 100) \div 10, h % 10 >>)

\* ----------------------------------------------------------------- images

\* The artifact's class names, results[0].names: class id -> name.
Names(n0, n1, n2) == [i \in {0, 1, 2} |-> IF i = 0 THEN n0 ELSE IF i = 1 THEN n1 ELSE n2]

\* The names the page's keys expect.
CodeNames == Names(KeyBacteria, KeyMilk, KeyDebries)

\* The same names as a training tool may format them.
NoisyNames ==
  Names(<< "B", "a", "c", "t", "e", "r", "i", "a", " " >>,
        << " ", "M", "I", "L", "K", "_", "R", "e", "s", "i", "d", "u", "e", "s" >>,
        << "D", "e", "b", "r", "i", "e", "s", "\n" >>)

\* The names with the third class spelled "debris".
DebrisNames == Names(KeyBacteria, KeyMilk, << "d", "e", "b", "r", "i", "s" >>)

NameTables == { CodeNames, NoisyNames, DebrisNames }

ClassIds == DOMAIN CodeNames

SeqsUpTo(S, n) == UNION { [1..k -> S] : k \in 0..n }

\* An uploaded file, as what opening it and running the model on it gives:
\*   ok          the model returns one result with these class ids in its boxes
\*   unreadable  Image.open raises
\*   empty       the model returns no result object
\*   noboxes     the model returns a result whose boxes is None
OkImage(cls) == [kind |-> "ok", cls |-> cls]

FailureKinds == { "unreadable", "empty", "noboxes" }

Images(maxdet) ==
  { OkImage(cls) : cls \in SeqsUpTo(ClassIds, maxdet) }
    \cup { [kind |-> k, cls |-> << >>] : k \in FailureKinds }

NoModel == [loaded |-> FALSE, names |-> EmptyDict]

\* model(img_np, conf=conf_threshold, iou=0.5)
ModelCall(model, img) ==
  IF img.kind = "empty" THEN << >>
  ELSE IF img.kind = "noboxes"
  THEN << [boxes |-> [is_none |-> TRUE, cls |-> << >>], names |-> model.names] >>
  ELSE << [boxes |-> [is_none |-> FALSE, cls |-> img.cls], names |-> model.names] >>

\* Mutant of CountLabel: the count is set, never incremented.
CountLabelOnce(counts, label) == Put(counts, label, 1)

\* counts[label] = counts.get(label, 0) + 1
CountLabel(counts, label) == Put(counts, label, Get(counts, label, 0) + 1)

RECURSIVE CountClasses(_, _, _)
CountClasses(counts, classes, names) ==
  IF classes = << >> THEN counts
  ELSE CountClasses(CountLabel(counts, NormalizeLabel(names[Head(classes)])),
                    Tail(classes), names)

run_yolo_and_get_counts(img, model) ==
  LET results == ModelCall(model, img)
  IN  IF results # << >> /\ ~results[1].boxes.is_none
      THEN CountClasses(EmptyDict, results[1].boxes.cls, results[1].names)
      ELSE EmptyDict

\* ----------------------------------------------------------- RUN DETECTION

\* Mutant of InitialTotalCounts: the previous run's totals are kept.
StaleTotalCounts == total_counts

\* total_counts = {}
InitialTotalCounts == EmptyDict

\* Mutant of MergeItem: a later image's count replaces an earlier one's.
MergeItemOverwrite(total, k, v) == Put(total, k, v)

\* total_counts[k] = total_counts.get(k, 0) + v
MergeItem(total, k, v) == Put(total, k, Get(total, k, 0) + v)

RECURSIVE MergeDict(_, _, _)
MergeDict(total, d, keys) ==
  IF keys = {} THEN total
  ELSE LET k == CHOOSE x \in keys : TRUE
       IN  MergeDict(MergeItem(total, k, d[k]), d, keys \ {k})

\* for d in (counts1, counts2): for k, v in d.items(): ...
RECURSIVE MergeAll(_, _)
MergeAll(total, dicts) ==
  IF dicts = << >> THEN total
  ELSE MergeAll(MergeDict(total, Head(dicts), DOMAIN Head(dicts)), Tail(dicts))

HeaderClean == "Surface is Clean"

HeaderBacteria == "Bacterial Contamination Detected"

HeaderResidue == "Surface Residue Detected"

Metric(label, value) == [label |-> label, value |-> value]

NoCard == [header |-> None, metrics |-> << >>]

\* Mutant of IsClean: only the three classes the page reads are summed.
IsCleanOfReadKeys(total) ==
  Get(total, KeyBacteria, 0) + Get(total, KeyMilk, 0)
    + Get(total, KeyDebries, 0) = 0

\* if sum(total_counts.values()) == 0
IsClean(total) == SumValues(total) = 0

CleanCard == [header |-> HeaderClean, metrics |-> << >>]

\* Mutant of BacteriaCard: the other deployment's estimate, round(ml / 3).
BacteriaCardPolicyA(bacteria) ==
  LET bacteria_ml == bacteria * 1000
      cfu         == (2 * bacteria_ml + 3) \div 6
  IN  [header  |-> HeaderBacteria,
       metrics |-> << Metric("Bacteria/ml", FormatInt(bacteria_ml)),
                      Metric("CFU/ml", FormatInt(cfu)) >>]

BacteriaCard(bacteria) ==
  LET bacteria_ml == bacteria * 1000
      cfu         == MulBy009(bacteria_ml)
  IN  [header  |-> HeaderBacteria,
       metrics |-> << Metric("Bacteria/ml", FormatInt(bacteria_ml)),
                      Metric("CFU/ml", Format2f(cfu)) >>]

\* Mutant of ResidueCard: the counts are shown unscaled.
ResidueCardUnscaled(milk, debries) ==
  [header  |-> HeaderResidue,
   metrics |->
     (IF milk > 0
      THEN << Metric("Milk Residues/ml", FormatInt(milk)) >>
      ELSE << >>)
     \o
     (IF debries > 0
      THEN << Metric("Debries/ml", FormatInt(debries)) >>
      ELSE << >>)]

ResidueCard(milk, debries) ==
  [header  |-> HeaderResidue,
   metrics |->
     (IF milk > 0
      THEN << Metric("Milk Residues/ml", FormatInt(milk * 1000)) >>
      ELSE << >>)
     \o
     (IF debries > 0
      THEN << Metric("Debries/ml", FormatInt(debries * 1000)) >>
      ELSE << >>)]

\* Mutant of BuildCard: the residue branch is tested before the bacteria
\* branch.
BuildCardResidueFirst(total) ==
  LET bacteria == Get(total, KeyBacteria, 0)
      debries  == Get(total, KeyDebries, 0)
      milk     == Get(total, KeyMilk, 0)
  IN  IF IsClean(total) THEN CleanCard
      ELSE IF milk > 0 \/ debries > 0 THEN ResidueCard(milk, debries)
      ELSE BacteriaCard(bacteria)

\* The if / elif / else that builds card_html.
BuildCard(total) ==
  LET bacteria == Get(total, KeyBacteria, 0)
      debries  == Get(total, KeyDebries, 0)
      milk     == Get(total, KeyMilk, 0)
  IN  IF IsClean(total) THEN CleanCard
      ELSE IF bacteria > 0 THEN BacteriaCard(bacteria)
      ELSE ResidueCard(milk, debries)

\* Mutant of ExactlyTwo: two or more files pass the guard.
AtLeastTwo(files) == files # << >> /\ Len(files) >= 2

\* if uploaded_files and len(uploaded_files) == 2
ExactlyTwo(files) == files # << >> /\ Len(files) = 2

\* --------------------------------------------------------- load_yolo_model

\* What gdown.download_folder leaves behind: the whole file, a truncated
\* file, or nothing.
DownloadOutcomes == { "ok", "partial", "failed" }

\* Mutant of ShouldDownload: the existence check is missing.
AlwaysDownload(file) == TRUE

\* if not os.path.exists(MODEL_PATH)
ShouldDownload(file) == file = "absent"

\* gdown.download_folder(id=GDRIVE_FOLDER_ID, output=MODEL_DIR)
Downloaded(file, dl) ==
  IF dl = "ok" THEN "valid" ELSE IF dl = "partial" THEN "corrupt" ELSE file

\* YOLO(MODEL_PATH): the model, or NoModel when the constructor raises.
YOLO(file) ==
  IF file = "valid" THEN [loaded |-> TRUE, names |-> remote] ELSE NoModel

\* load_yolo_model() under @st.cache_resource: a cached model is returned
\* without running the body; a body that raises caches nothing.
load_yolo_model(dl) ==
  LET cached    == cache.loaded
      download  == ~cached /\ ShouldDownload(modelFile)
      fileAfter == IF download THEN Downloaded(modelFile, dl) ELSE modelFile
      model     == IF cached THEN cache ELSE YOLO(fileAfter)
  IN  [model     |-> model,
       file      |-> fileAfter,
       cache     |-> IF model.loaded THEN model ELSE cache,
       fetched   |-> IF download /\ dl # "failed" THEN 1 ELSE 0,
       loaded    |-> IF ~cached /\ model.loaded THEN 1 ELSE 0,
       redundant |-> download /\ modelFile # "absent"]

\* ------------------------------------------------------------ one script run

\* The script's variables and page after a run that raised.
Raised(model) ==
  [yolo_model |-> model, counts1 |-> EmptyDict, counts2 |-> EmptyDict,
   total_counts |-> EmptyDict, card_html |-> NoCard, shown |-> "exception",
   inferences |-> 0]

\* The script's variables and page after a run that built no card.
NoDetection(model, page) ==
  [yolo_model |-> model, counts1 |-> EmptyDict, counts2 |-> EmptyDict,
   total_counts |-> EmptyDict, card_html |-> NoCard, shown |-> page,
   inferences |-> 0]

\* The body of "if uploaded_files and len(uploaded_files) == 2".
Detection(model, files) ==
  IF files[1].kind = "unreadable" \/ files[2].kind = "unreadable"
  THEN Raised(model)
  ELSE LET c1    == run_yolo_and_get_counts(files[1], model)
           c2    == run_yolo_and_get_counts(files[2], model)
           total == MergeAll(InitialTotalCounts, << c1, c2 >>)
       IN  [yolo_model |-> model, counts1 |-> c1, counts2 |-> c2,
            total_counts |-> total, card_html |-> BuildCard(total),
            shown |-> "card", inferences |-> 2]

\* The script from yolo_model = load_yolo_model() to its end.
Script(model, files) ==
  IF ~model.loaded THEN Raised(model)
  ELSE IF ExactlyTwo(files) THEN Detection(model, files)
  ELSE IF files # << >> THEN NoDetection(model, "warning")
  ELSE NoDetection(model, "info")

\* One execution of the script with the uploader holding files.
ScriptRun(files, dl) ==
  \E ld \in { load_yolo_model(dl) } : \E run \in { Script(ld.model, files) } :
      /\ uploaded_files' = files
      /\ modelFile' = ld.file
      /\ cache' = ld.cache
      /\ fetches' = fetches + ld.fetched
      /\ loads' = loads + ld.loaded
      /\ redundant' = (redundant \/ ld.redundant)
      /\ analysed' = (analysed \/ shown = "card")
      /\ yolo_model' = run.yolo_model
      /\ counts1' = run.counts1
      /\ counts2' = run.counts2
      /\ total_counts' = run.total_counts
      /\ card_html' = run.card_html
      /\ shown' = run.shown
      /\ inferences' = run.inferences
      /\ UNCHANGED remote

\* The download outcomes a run can meet: none is drawn while the cache
\* holds the model, since the body of load_yolo_model does not run.
PossibleDownloads == IF cache.loaded THEN { "failed" } ELSE DownloadOutcomes

\* The process starts: no script has run, the uploader is empty, the model
\* file is whatever an earlier process left in models/.
Init ==
  /\ uploaded_files = << >>
  /\ modelFile \in { "absent", "valid", "corrupt" }
  /\ remote \in NameTables
  /\ cache = NoModel
  /\ yolo_model = NoModel
  /\ counts1 = EmptyDict
  /\ counts2 = EmptyDict
  /\ total_counts = EmptyDict
  /\ card_html = NoCard
  /\ shown = "blank"
  /\ inferences = 0
  /\ fetches = 0
  /\ loads = 0
  /\ redundant = FALSE
  /\ analysed = FALSE

\* The page is opened or rerun with the uploader unchanged.
Rerun ==
  \E dl \in PossibleDownloads : ScriptRun(uploaded_files, dl)

\* The uploader is on the page only after a run that got past
\* yolo_model = load_yolo_model().
UploaderShown == yolo_model.loaded

\* The user adds one file.
AddFile ==
  /\ UploaderShown
  /\ Len(uploaded_files) < MaxFiles
  /\ \E img \in Images(MaxDet), dl \in PossibleDownloads :
       ScriptRun(Append(uploaded_files, img), dl)

\* The user removes one file.
RemoveFile ==
  /\ UploaderShown
  /\ \E i \in DOMAIN uploaded_files, dl \in PossibleDownloads :
       ScriptRun(SubSeq(uploaded_files, 1, i - 1)
                   \o SubSeq(uploaded_files, i + 1, Len(uploaded_files)), dl)

\* The user drops two files at once on an empty uploader.
DropPair ==
  /\ UploaderShown
  /\ uploaded_files = << >>
  /\ \E a \in Images(MaxBatchDet), b \in Images(MaxBatchDet),
        dl \in PossibleDownloads :
       ScriptRun(<< a, b >>, dl)

Next == Rerun \/ AddFile \/ RemoveFile

\* A user session: files are added and removed one at a time.
Spec == Init /\ [][Next]_vars

NextBatch == Rerun \/ DropPair \/ RemoveFile

\* Pairs of images analysed from an empty uploader.
SpecBatch == Init /\ [][NextBatch]_vars

\* ------------------------------------------------------------ the claims

\* What the model returns for an image, read off the upload directly.
Returned(img) == IF img.kind = "ok" THEN img.cls ELSE << >>

\* The detections of an image whose normalised class name is key.
Found(img, key) ==
  Cardinality({ i \in DOMAIN Returned(img) :
                  NormalizeLabel(remote[Returned(img)[i]]) = key })

\* The same, over the two uploaded images.
FoundInBoth(key) ==
  Found(uploaded_files[1], key) + Found(uploaded_files[2], key)

\* All detections of the two uploaded images, whatever their class.
ReturnedInBoth ==
  Len(Returned(uploaded_files[1])) + Len(Returned(uploaded_files[2]))

\* The latest run analysed two images and showed a result card.
Analysis == shown = "card"

\* C1: with a number of uploaded images other than two no inference runs
\* and no result card is built or shown; a run that reaches the guard shows
\* the prompt for no image and the warning for one or more than two; a card
\* is shown only with exactly two images.
CardinalityGuard ==
  /\ Len(uploaded_files) # 2 =>
       inferences = 0 /\ card_html = NoCard /\ shown # "card"
  /\ UploaderShown /\ Len(uploaded_files) = 0 => shown = "info"
  /\ UploaderShown /\ Len(uploaded_files) \notin { 0, 2 } => shown = "warning"
  /\ (shown = "card" \/ card_html # NoCard \/ inferences # 0) =>
       Len(uploaded_files) = 2

CardinalityGuardWitness ==
  /\ Len(uploaded_files) = 3
  /\ shown = "warning"
  /\ analysed

\* C2: whenever the bacteria detections of the two images sum to more than
\* zero the card is the bacterial-contamination card, whatever else was
\* detected.
BacteriaPriority ==
  Analysis /\ FoundInBoth(KeyBacteria) > 0 =>
    card_html.header = HeaderBacteria

BacteriaPriorityWitness ==
  /\ Analysis
  /\ FoundInBoth(KeyBacteria) = 1
  /\ FoundInBoth(KeyMilk) + FoundInBoth(KeyDebries) > 1
  /\ card_html.header = HeaderBacteria

\* The residue metrics for a milk count and a debris count.
ResidueMetrics(milk, debris) ==
  (IF milk > 0
   THEN << Metric("Milk Residues/ml", Rendered(milk * 1000, << >>)) >>
   ELSE << >>)
  \o
  (IF debris > 0
   THEN << Metric("Debries/ml", Rendered(debris * 1000, << >>)) >>
   ELSE << >>)

KeyDebris == << "d", "e", "b", "r", "i", "s" >>

\* C3 as stated: with the classes named bacteria / milk_residues / debris,
\* no bacteria and some milk residue or debris, the card is the residue
\* card and shows each nonzero milk and debris count times 1000.
ResidueRuleAsStated ==
  ( /\ Analysis
    /\ remote = DebrisNames
    /\ FoundInBoth(KeyBacteria) = 0
    /\ FoundInBoth(KeyMilk) + FoundInBoth(KeyDebris) > 0 ) =>
    /\ card_html.header = HeaderResidue
    /\ card_html.metrics =
         ResidueMetrics(FoundInBoth(KeyMilk), FoundInBoth(KeyDebris))

\* C3 amended: with no bacteria and at least one detection of any class the
\* card is the residue card, and it shows each nonzero count of the labels
\* "milk_residues" and "debries" times 1000 and nothing else.
ResidueRule ==
  ( /\ Analysis
    /\ FoundInBoth(KeyBacteria) = 0
    /\ ReturnedInBoth > 0 ) =>
    /\ card_html.header = HeaderResidue
    /\ card_html.metrics =
         ResidueMetrics(FoundInBoth(KeyMilk), FoundInBoth(KeyDebries))

ResidueRuleWitness ==
  /\ Analysis
  /\ FoundInBoth(KeyBacteria) = 0
  /\ FoundInBoth(KeyMilk) = 2
  /\ FoundInBoth(KeyDebries) = 1
  /\ Len(card_html.metrics) = 2

\* C4: the card is the clean card exactly when the two images have no
\* detection of any class.
CleanRule ==
  Analysis => (card_html.header = HeaderClean <=> ReturnedInBoth = 0)

CleanRuleWitness ==
  /\ Analysis
  /\ uploaded_files[1] = OkImage(<< >>)
  /\ uploaded_files[2] = OkImage(<< >>)
  /\ card_html = CleanCard

\* C5 as stated: when the model cannot be loaded, or either of two uploaded
\* images cannot be read or gets no usable result from the model, the run
\* ends in an exception and shows no card.
FailureIsDistinct ==
  ( /\ shown # "blank"
    /\ Len(uploaded_files) = 2
    /\ \/ ~yolo_model.loaded
       \/ \E i \in DOMAIN uploaded_files :
            uploaded_files[i].kind \in FailureKinds ) =>
    /\ shown = "exception"
    /\ card_html = NoCard

\* C6: total_counts maps every label to the sum of its two per-image
\* counts, and the two images in the other order give the same total_counts
\* and the same card.
AdditiveAggregation ==
  Analysis =>
    /\ DOMAIN total_counts = DOMAIN counts1 \cup DOMAIN counts2
    /\ \A k \in DOMAIN total_counts :
         total_counts[k] = Get(counts1, k, 0) + Get(counts2, k, 0)
    /\ LET swapped ==
             Detection(yolo_model, << uploaded_files[2], uploaded_files[1] >>)
       IN  /\ swapped.total_counts = total_counts
           /\ swapped.card_html = card_html

AdditiveAggregationWitness ==
  /\ Analysis
  /\ counts1 # counts2
  /\ \E k \in DOMAIN counts1 \cap DOMAIN counts2 :
       counts1[k] = 2 /\ counts2[k] = 1 /\ total_counts[k] = 3
  /\ Cardinality(DOMAIN total_counts) = 2

\* C7: each image's count map sums to the number of detections the model
\* returned for it and holds only positive counts, total_counts sums to the
\* detections of both images, and no detection gives the empty map.
Conservation ==
  Analysis =>
    /\ SumValues(counts1) = Len(Returned(uploaded_files[1]))
    /\ SumValues(counts2) = Len(Returned(uploaded_files[2]))
    /\ \A k \in DOMAIN counts1 : counts1[k] >= 1
    /\ \A k \in DOMAIN counts2 : counts2[k] >= 1
    /\ \A k \in DOMAIN counts1 : counts1[k] = Found(uploaded_files[1], k)
    /\ \A k \in DOMAIN counts2 : counts2[k] = Found(uploaded_files[2], k)
    /\ SumValues(total_counts) = ReturnedInBoth
    /\ Returned(uploaded_files[1]) = << >> => counts1 = EmptyDict
    /\ Returned(uploaded_files[2]) = << >> => counts2 = EmptyDict

ConservationWitness ==
  /\ Analysis
  /\ \E k \in DOMAIN counts1 : counts1[k] = 2
  /\ counts2 = EmptyDict
  /\ uploaded_files[2] = OkImage(<< >>)
  /\ SumValues(total_counts) = 2

\* C8: for a summed bacteria count b > 0 the card shows b * 1000 as
\* Bacteria/ml and 90 * b with the decimals "00" as CFU/ml.
EstimatorB ==
  Analysis /\ FoundInBoth(KeyBacteria) > 0 =>
    card_html.metrics =
      << Metric("Bacteria/ml",
                Rendered(FoundInBoth(KeyBacteria) * 1000, << >>)),
         Metric("CFU/ml",
                Rendered(FoundInBoth(KeyBacteria) * 90, << 0, 0 >>)) >>

EstimatorBWitness ==
  /\ Analysis
  /\ Found(uploaded_files[1], KeyBacteria) = 1
  /\ Found(uploaded_files[2], KeyBacteria) = 1
  /\ card_html.metrics[1].value = Rendered(2000, << >>)
  /\ card_html.metrics[2].value = Rendered(180, << 0, 0 >>)

\* The card for two images, from their detections alone.
CardOf(files) ==
  LET count(key) == Found(files[1], key) + Found(files[2], key)
      all        == Len(Returned(files[1])) + Len(Returned(files[2]))
  IN  IF all = 0 THEN [header |-> HeaderClean, metrics |-> << >>]
      ELSE IF count(KeyBacteria) > 0
      THEN [header  |-> HeaderBacteria,
            metrics |->
              << Metric("Bacteria/ml",
                        Rendered(count(KeyBacteria) * 1000, << >>)),
                 Metric("CFU/ml",
                        Rendered(count(KeyBacteria) * 90, << 0, 0 >>)) >>]
      ELSE [header  |-> HeaderResidue,
            metrics |-> ResidueMetrics(count(KeyMilk), count(KeyDebries))]

\* What a run that reaches the guard leaves on the page, from the uploaded
\* files alone.
OutcomeOf(files) ==
  IF Len(files) = 0 THEN << "info", NoCard >>
  ELSE IF Len(files) # 2 THEN << "warning", NoCard >>
  ELSE IF \E i \in DOMAIN files : files[i].kind = "unreadable"
  THEN << "exception", NoCard >>
  ELSE << "card", CardOf(files) >>

\* C9: whatever ran before, what a run shows is determined by the files the
\* uploader holds now.
Stateless ==
  UploaderShown => << shown, card_html >> = OutcomeOf(uploaded_files)

StatelessWitness ==
  /\ analysed
  /\ Analysis
  /\ card_html.header = HeaderClean

\* C10: the model file is downloaded at most once, and only while it is
\* absent; the model is constructed at most once and then served from the
\* cache; inference runs only on a model that was loaded.
ModelLifecycle ==
  /\ fetches <= 1
  /\ loads <= 1
  /\ ~redundant
  /\ cache.loaded => loads = 1 /\ modelFile = "valid"
  /\ yolo_model.loaded => yolo_model = cache
  /\ inferences > 0 => yolo_model.loaded /\ yolo_model.names = remote

ModelLifecycleWitness ==
  /\ fetches = 1
  /\ loads = 1
  /\ inferences = 2
  /\ analysed

====
